---- MODULE Spec2Model ----
(***************************************************************************)
(* Model of CMSLoader (src/src/js/cms-loader.js): the in-memory cache with *)
(* time-based expiry and the three asynchronous loaders built on it.       *)
(*                                                                         *)
(* Text is a sequence of tokens.  A token is either the newline "\n", or a *)
(* maximal run of characters without a newline (a line of a document), or, *)
(* in names and paths, one of the pieces "/content/", "/", ":", ".md" or a *)
(* run of characters that contains none of these.  Concatenation of text   *)
(* is \o, so keys and paths are built exactly as the template literals of  *)
(* the code build them.                                                    *)
(*                                                                         *)
(* JavaScript runs each stretch of code between two awaits atomically, so  *)
(* an action is one such stretch: a call up to its first await, or the     *)
(* continuation after a response arrived up to the return.                 *)
(***************************************************************************)
EXTENDS Integers, Sequences, FiniteSets, TLC

\* ------------------------------------------------------------- constants
cacheTime == 5 * 60 * 1000

baseUrl == <<"/content/">>

\* ---------------------------------------------------------------- bounds
\* The number of loader calls made in a behaviour, the loadContent calls of
\* a loadCollection call included.
MaxTasks == 3

\* The instants at which Date.now() is read: an entry stamped at 0 has the
\* age cacheTime at the second instant and is one millisecond older at the
\* third.
Instants == {0, cacheTime, cacheTime + 1}

\* The number of .review-dot elements of the page.
MaxSlides == 5

\* ----------------------------------------------------------- JS values
\* Every JS value the loader handles is an object of one shape: id is the
\* identity of the object (0 for null), fields a mapping, items an array.
EmptyMap == [k \in {} |-> <<>>]

null == [id |-> 0, kind |-> "null", fields |-> EmptyMap, items |-> <<>>]

Truthy(v) == v.kind # "null"

Str(toks) == [t |-> "string", v |-> toks]

Bool(b) == [t |-> "boolean", v |-> <<b>>]

\* {...g, ...f}: the spread written last, so that the keys of f win.
SpreadFirstWins(f, g) ==
    [k \in DOMAIN f \cup DOMAIN g |-> IF k \in DOMAIN f THEN f[k] ELSE g[k]]

\* {...f, ...g}: the keys of g win.
Spread(f, g) ==
    [k \in DOMAIN f \cup DOMAIN g |-> IF k \in DOMAIN g THEN g[k] ELSE f[k]]

\* ------------------------------------------------ the documents served
NL == "\n"

DocHello == <<"---", NL, "title: Hello", NL, "---", NL, "Body text">>
DocActive == <<"---", NL, "active: true", NL, "---", NL, "Body text">>
DocInactive == <<"---", NL, "title: Old", NL, "active: false", NL, "---", NL, "Body text">>
DocBadYaml == <<"---", NL, "{bad", NL, "---", NL, "Body text">>
DocNoClose == <<"---", NL, "title: Hello", NL, "Body text">>

Docs == {DocHello, DocActive, DocInactive, DocBadYaml, DocNoClose}

\* Documents of other shapes: frontmatter keys named as the derived fields, a
\* body with a "---" line of its own, no body, the closing "---" as the last
\* characters of the text, an empty block, and no delimiters at all.
DocShadow ==
    <<"---", NL, "title: Hello", NL, "slug: other", NL, "body: shadow", NL,
      "---", NL, "Body text">>
DocTwoClose ==
    <<"---", NL, "title: Hello", NL, "---", NL, "Body text", NL, "---", NL, "More">>
DocNoBody == <<"---", NL, "title: Hello", NL, "---", NL>>
DocNoNewline == <<"---", NL, "title: Hello", NL, "---">>
DocEmptyBlock == <<"---", NL, NL, "---", NL, "Body text">>
DocNoBlock == <<"---", NL, "---", NL, "Body text">>
DocPlain == <<"Body text">>

AllDocs ==
    Docs \cup {DocShadow, DocTwoClose, DocNoBody, DocNoNewline, DocEmptyBlock,
               DocNoBlock, DocPlain}

SettingsGood == <<"title: Hello">>
SettingsBad == <<"{bad">>

SettingsTexts == {SettingsGood, SettingsBad}

\* What fetch() may produce: a rejected promise, a non-ok status, or a text.
NetworkError == [status |-> "rejected", text |-> <<>>]
HttpError == [status |-> "404", text |-> <<>>]
Ok(text) == [status |-> "200", text |-> text]

Failures == {NetworkError, HttpError}

\* ----------------------------------------------------------- exceptions
\* The outcome of an expression that may throw.
Throw == [threw |-> TRUE, value |-> null]

\* ------------------------------------------------------------ libraries
\* js-yaml's load on a block of lines.  A line "key: value" is one entry;
\* the line "{bad" is an unterminated flow mapping, on which load throws.
YamlKey(line) ==
    CASE line = "title: Hello" -> "title"
      [] line = "title: Old" -> "title"
      [] line = "active: false" -> "active"
      [] line = "active: true" -> "active"
      [] line = "slug: other" -> "slug"
      [] line = "body: shadow" -> "body"
      [] OTHER -> ""

YamlValue(line) ==
    CASE line = "title: Hello" -> Str(<<"Hello">>)
      [] line = "title: Old" -> Str(<<"Old">>)
      [] line = "active: false" -> Bool("false")
      [] line = "active: true" -> Bool("true")
      [] line = "slug: other" -> Str(<<"other">>)
      [] line = "body: shadow" -> Str(<<"shadow">>)
      [] OTHER -> Str(<<>>)

YamlLines(block) == {block[i] : i \in {j \in 1..Len(block) : block[j] # NL}}

jsyaml_load(block) ==
    IF \E l \in YamlLines(block) : YamlKey(l) = ""
    THEN [threw |-> TRUE, value |-> EmptyMap]
    ELSE [threw |-> FALSE,
          value |-> [k \in {YamlKey(l) : l \in YamlLines(block)} |->
                        YamlValue(CHOOSE l \in YamlLines(block) : YamlKey(l) = k)]]

\* marked's rendering of a body: a paragraph, and nothing for an empty body.
marked_render(content) ==
    IF content = <<>> THEN <<>> ELSE <<"<p>">> \o content \o <<"</p>">>

\* --------------------------------------------------------------- inputs
Collections == {<<"services">>}

Slugs == {<<"a">>}

File(name) == <<name, ".md">>

Listings ==
    { <<File("a"), File("b")>>,
      <<<<"..">>, File("b"), <<"logo", ".png">>, File("a")>> }

\* ---------------------------------------------------------------- state
VARIABLES
    cache,       \* this.cache: key -> [data, timestamp]
    now,         \* Date.now()
    marked,      \* the global marked: "undefined", "function" or "throws"
    jsyaml,      \* the global jsyaml: "undefined" or "object"
    tasks,       \* the calls made so far, in call order, each with its position
    fetchCount,  \* number of fetch() calls per path
    nextId,      \* identity of the next object allocated
    currentSlide,   \* the page script's currentSlide
    reviewsSlider,  \* the .reviews-track element and its style.transform
    reviewDots      \* the .review-dot elements: has each the class active

\* The state of the reviews slider of the page script.
slider == <<currentSlide, reviewsSlider, reviewDots>>

vars == <<cache, now, marked, jsyaml, tasks, fetchCount, nextId, slider>>

\* ---------------------------------------------------------------- cache
Remove(ch, key) == [k \in DOMAIN ch \ {key} |-> ch[k]]

\* getCached with the expiry test age >= cacheTime.
getCachedExpiresEarly(ch, key) ==
    IF key \notin DOMAIN ch
    THEN [data |-> null, cache |-> ch]
    ELSE LET item == ch[key]
             age == now - item.timestamp
         IN  IF age >= cacheTime
             THEN [data |-> null, cache |-> Remove(ch, key)]
             ELSE [data |-> item.data, cache |-> ch]

\* getCached without the delete of the expired entry.
getCachedKeepsStale(ch, key) ==
    IF key \notin DOMAIN ch
    THEN [data |-> null, cache |-> ch]
    ELSE LET item == ch[key]
             age == now - item.timestamp
         IN  IF age > cacheTime
             THEN [data |-> null, cache |-> ch]
             ELSE [data |-> item.data, cache |-> ch]

\* getCached that compares the age in seconds with cacheTime.
getCachedAgeInSeconds(ch, key) ==
    IF key \notin DOMAIN ch
    THEN [data |-> null, cache |-> ch]
    ELSE LET item == ch[key]
             age == (now - item.timestamp) \div 1000
         IN  IF age > cacheTime
             THEN [data |-> null, cache |-> Remove(ch, key)]
             ELSE [data |-> item.data, cache |-> ch]

\* getCached: [data |-> what it returns, cache |-> this.cache afterwards].
getCached(ch, key) ==
    IF key \notin DOMAIN ch
    THEN [data |-> null, cache |-> ch]
    ELSE LET item == ch[key]
             age == now - item.timestamp
         IN  IF age > cacheTime
             THEN [data |-> null, cache |-> Remove(ch, key)]
             ELSE [data |-> item.data, cache |-> ch]

\* setCached that leaves an entry that is already there.
setCachedKeepsFirst(ch, key, data) ==
    [k \in DOMAIN ch \cup {key} |->
        IF k = key /\ k \notin DOMAIN ch
        THEN [data |-> data, timestamp |-> now] ELSE ch[k]]

setCached(ch, key, data) ==
    [k \in DOMAIN ch \cup {key} |->
        IF k = key THEN [data |-> data, timestamp |-> now] ELSE ch[k]]

\* --------------------------------------------------------------- fetcher
\* The try block of fetchFile: await fetch(path), the status check and
\* response.text().
fetchText(resp) ==
    IF resp.status = "rejected" THEN Throw
    ELSE IF resp.status # "200" THEN Throw
    ELSE [threw |-> FALSE, value |-> [isNull |-> FALSE, text |-> resp.text]]

\* fetchFile: the text, or null when the try block threw.
fetchFile(resp) ==
    LET tried == fetchText(resp)
    IN  IF tried.threw
        THEN [threw |-> FALSE, value |-> [isNull |-> TRUE, text |-> <<>>]]
        ELSE tried

\* !content: null and the empty string are both falsy.
Falsy(content) == content.isNull \/ content.text = <<>>

\* The try block of listFiles: the link texts of the index page.
listLinks(resp) ==
    IF resp.status = "rejected" THEN [threw |-> TRUE, value |-> <<>>]
    ELSE IF resp.status # "200" THEN [threw |-> FALSE, value |-> <<>>]
    ELSE [threw |-> FALSE, value |-> resp.text]

\* listFiles: [] when the try block threw.
listFiles(resp) ==
    LET tried == listLinks(resp)
    IN  IF tried.threw THEN [threw |-> FALSE, value |-> <<>>] ELSE tried

\* ---------------------------------------------------------------- parser
\* Places of a closing "\n---\n" after the opening "---\n".
ClosePositions(content) ==
    {j \in 3..(Len(content) - 2) :
        content[j] = NL /\ content[j + 1] = "---" /\ content[j + 2] = NL}

Min(S) == CHOOSE x \in S : \A y \in S : x <= y

Max(S) == CHOOSE x \in S : \A y \in S : x >= y

\* The pattern with a greedy block, ([\s\S]*), which ends at the last closing
\* delimiter.
RegexMatchGreedy(content) ==
    IF Len(content) >= 2 /\ content[1] = "---" /\ content[2] = NL
       /\ ClosePositions(content) # {}
    THEN LET j == Max(ClosePositions(content))
         IN  [matched |-> TRUE,
              block |-> SubSeq(content, 3, j - 1),
              body |-> SubSeq(content, j + 3, Len(content))]
    ELSE [matched |-> FALSE, block |-> <<>>, body |-> <<>>]

\* /^---\n([\s\S]*?)\n---\n([\s\S]*)$/: the lazy block ends at the first
\* closing delimiter.
RegexMatch(content) ==
    IF Len(content) >= 2 /\ content[1] = "---" /\ content[2] = NL
       /\ ClosePositions(content) # {}
    THEN LET j == Min(ClosePositions(content))
         IN  [matched |-> TRUE,
              block |-> SubSeq(content, 3, j - 1),
              body |-> SubSeq(content, j + 3, Len(content))]
    ELSE [matched |-> FALSE, block |-> <<>>, body |-> <<>>]

\* jsyaml.load(text): a ReferenceError when the library is not loaded.
yamlLoad(text) ==
    IF jsyaml = "undefined" THEN [threw |-> TRUE, value |-> EmptyMap]
    ELSE jsyaml_load(text)

\* try { jsyaml.load(text) } catch { {} }
yamlLoadOrEmpty(text) ==
    LET tried == yamlLoad(text)
    IN  IF tried.threw THEN [threw |-> FALSE, value |-> EmptyMap] ELSE tried

\* parseFrontmatter that reports a failed deserialization as an error.
parseFrontmatterStrict(content) ==
    LET match == RegexMatch(content)
        loaded == yamlLoad(match.block)
    IN  IF ~match.matched
        THEN [threw |-> FALSE, frontmatter |-> EmptyMap, body |-> content,
              error |-> "Invalid frontmatter format"]
        ELSE [threw |-> FALSE,
              frontmatter |-> IF loaded.threw THEN EmptyMap ELSE loaded.value,
              body |-> match.body,
              error |-> IF loaded.threw THEN "Invalid frontmatter" ELSE "null"]

parseFrontmatter(content) ==
    LET match == RegexMatch(content)
        loaded == yamlLoadOrEmpty(match.block)
    IN  IF ~match.matched
        THEN [threw |-> FALSE, frontmatter |-> EmptyMap, body |-> content,
              error |-> "Invalid frontmatter format"]
        ELSE [threw |-> loaded.threw, frontmatter |-> loaded.value,
              body |-> match.body, error |-> "null"]

\* marked(content): a TypeError or a rendering error when marked throws.
markedCall(content) ==
    IF marked = "throws" THEN [threw |-> TRUE, value |-> <<>>]
    ELSE [threw |-> FALSE, value |-> marked_render(content)]

\* parseMarkdown without the try around marked(content).
parseMarkdownUnguarded(content) ==
    IF marked = "undefined" THEN [threw |-> FALSE, value |-> content]
    ELSE markedCall(content)

\* parseMarkdown whose catch returns '' instead of content.
parseMarkdownDropsOnFailure(content) ==
    IF marked = "undefined" THEN [threw |-> FALSE, value |-> content]
    ELSE LET tried == markedCall(content)
         IN  IF tried.threw THEN [threw |-> FALSE, value |-> <<>>] ELSE tried

parseMarkdown(content) ==
    IF marked = "undefined" THEN [threw |-> FALSE, value |-> content]
    ELSE LET tried == markedCall(content)
         IN  IF tried.threw THEN [threw |-> FALSE, value |-> content] ELSE tried

\* ----------------------------------------------------------------- tasks
\* One call of a loader.  pc is where the call stands: "fetch" (awaiting
\* fetchFile), "list" (awaiting listFiles), "await" (awaiting
\* Promise.allSettled), "fulfilled" (returned result) or "rejected" (threw).
\* resp is the response the call received, kids the loadContent calls a
\* loadCollection call made, parent the loadCollection call that made this
\* call (0: some other code of the page).
NoResponse == [status |-> "none", text |-> <<>>]

NewTask(op, c, s, parent) ==
    [op |-> op, collection |-> c, slug |-> s, parent |-> parent,
     pc |-> "fulfilled", result |-> null, kids |-> <<>>, resp |-> NoResponse]

Count(fc, path) == IF path \in DOMAIN fc THEN fc[path] ELSE 0

Inc(fc, path) ==
    [p \in DOMAIN fc \cup {path} |-> IF p = path THEN Count(fc, path) + 1 ELSE fc[p]]

ContentKey(c, s) == c \o <<":">> \o s

ContentPath(c, s) == baseUrl \o c \o <<"/">> \o s \o <<".md">>

CollectionKey(c) == <<"collection">> \o <<":">> \o c

CollectionPath(c) == baseUrl \o c \o <<"/">>

SettingsKey == <<"settings", ":", "global">>

SettingsPath == baseUrl \o <<"settings", "/", "global", ".yml">>

PathOf(task) ==
    CASE task.op = "loadContent" -> ContentPath(task.collection, task.slug)
      [] task.op = "loadCollection" -> CollectionPath(task.collection)
      [] OTHER -> SettingsPath

KeyOf(task) ==
    CASE task.op = "loadContent" -> ContentKey(task.collection, task.slug)
      [] task.op = "loadCollection" -> CollectionKey(task.collection)
      [] OTHER -> SettingsKey

\* return data: the promise of the call is fulfilled with it.
Return(st, t, data) ==
    [st EXCEPT !.tasks[t].pc = "fulfilled", !.tasks[t].result = data]

\* An exception leaves the async function: its promise is rejected.
Reject(st, t) == [st EXCEPT !.tasks[t].pc = "rejected"]

\* A loader up to its first await: the cache lookup, then the return of the
\* cached value or the request for path.
Enter(st, op, c, s, parent, key, path, waitPc) ==
    LET t == Len(st.tasks) + 1
        cached == getCached(st.cache, key)
        called == [st EXCEPT !.tasks = Append(@, NewTask(op, c, s, parent)),
                             !.cache = cached.cache]
    IN  IF Truthy(cached.data)
        THEN Return(called, t, cached.data)
        ELSE [called EXCEPT !.tasks[t].pc = waitPc,
                            !.fetchCount = Inc(@, path)]

\* ------------------------------------------------------------ loadContent
loadContent(st, collection, slug, parent) ==
    Enter(st, "loadContent", collection, slug, parent,
          ContentKey(collection, slug), ContentPath(collection, slug), "fetch")

\* loadContent that caches the record before it looks at parsed.error.
loadContentFetchedCachesFirst(st, t, resp) ==
    LET task == st.tasks[t]
        got == [st EXCEPT !.tasks[t].resp = resp]
        content == fetchFile(resp)
        parsed == parseFrontmatter(content.value.text)
        htmlBody == parseMarkdown(parsed.body)
        result == [id |-> st.nextId, kind |-> "object",
                   fields |-> Spread(parsed.frontmatter,
                                     [body |-> Str(htmlBody.value),
                                      rawBody |-> Str(parsed.body),
                                      collection |-> Str(task.collection),
                                      slug |-> Str(task.slug)]),
                   items |-> <<>>]
        stored == [got EXCEPT !.cache = setCached(@, KeyOf(task), result),
                              !.nextId = @ + 1]
    IN  IF content.threw THEN Reject(got, t)
        ELSE IF Falsy(content.value) THEN Return(got, t, null)
        ELSE IF parsed.threw THEN Reject(got, t)
        ELSE IF parsed.error # "null" THEN Return(stored, t, null)
        ELSE IF htmlBody.threw THEN Reject(got, t)
        ELSE Return(stored, t, result)

\* loadContent after fetchFile returned.
loadContentFetched(st, t, resp) ==
    LET task == st.tasks[t]
        got == [st EXCEPT !.tasks[t].resp = resp]
        content == fetchFile(resp)
        parsed == parseFrontmatter(content.value.text)
        htmlBody == parseMarkdown(parsed.body)
        result == [id |-> st.nextId, kind |-> "object",
                   fields |-> Spread(parsed.frontmatter,
                                     [body |-> Str(htmlBody.value),
                                      rawBody |-> Str(parsed.body),
                                      collection |-> Str(task.collection),
                                      slug |-> Str(task.slug)]),
                   items |-> <<>>]
    IN  IF content.threw THEN Reject(got, t)
        ELSE IF Falsy(content.value) THEN Return(got, t, null)
        ELSE IF parsed.threw THEN Reject(got, t)
        ELSE IF parsed.error # "null" THEN Return(got, t, null)
        ELSE IF htmlBody.threw THEN Reject(got, t)
        ELSE Return([got EXCEPT !.cache = setCached(@, KeyOf(task), result),
                                !.nextId = @ + 1],
                    t, result)

\* ----------------------------------------------------------- loadSettings
loadSettings(st) ==
    Enter(st, "loadSettings", <<>>, <<>>, 0, SettingsKey, SettingsPath, "fetch")

\* loadSettings that gives up when the settings do not deserialize.
loadSettingsFetchedStrict(st, t, resp) ==
    LET got == [st EXCEPT !.tasks[t].resp = resp]
        content == fetchFile(resp)
        loaded == yamlLoad(content.value.text)
        settings == [id |-> st.nextId, kind |-> "object",
                     fields |-> loaded.value, items |-> <<>>]
    IN  IF content.threw THEN Reject(got, t)
        ELSE IF Falsy(content.value) THEN Return(got, t, null)
        ELSE IF loaded.threw THEN Return(got, t, null)
        ELSE Return([got EXCEPT !.cache = setCached(@, SettingsKey, settings),
                                !.nextId = @ + 1],
                    t, settings)

\* loadSettings after fetchFile returned.
loadSettingsFetched(st, t, resp) ==
    LET got == [st EXCEPT !.tasks[t].resp = resp]
        content == fetchFile(resp)
        loaded == yamlLoadOrEmpty(content.value.text)
        settings == [id |-> st.nextId, kind |-> "object",
                     fields |-> loaded.value, items |-> <<>>]
    IN  IF content.threw THEN Reject(got, t)
        ELSE IF Falsy(content.value) THEN Return(got, t, null)
        ELSE IF loaded.threw THEN Reject(got, t)
        ELSE Return([got EXCEPT !.cache = setCached(@, SettingsKey, settings),
                                !.nextId = @ + 1],
                    t, settings)

\* --------------------------------------------------------- loadCollection
endsWith(file, suffix) == Len(file) > 0 /\ file[Len(file)] = suffix

\* file.replace(pattern, ''): the first occurrence is removed.
replace(file, pattern) ==
    LET at == {i \in 1..Len(file) : file[i] = pattern}
    IN  IF at = {} THEN file
        ELSE SubSeq(file, 1, Min(at) - 1) \o SubSeq(file, Min(at) + 1, Len(file))

IsMd(file) == endsWith(file, ".md")

\* files.filter(...).map(file => this.loadContent(collection, slug)): the
\* calls are made one after the other, each up to its first await.
RECURSIVE MapLoad(_, _, _, _)
MapLoad(st, collection, files, parent) ==
    IF files = <<>> THEN st
    ELSE MapLoad(loadContent(st, collection, replace(Head(files), ".md"), parent),
                 collection, Tail(files), parent)

loadCollection(st, collection) ==
    Enter(st, "loadCollection", collection, <<>>, 0,
          CollectionKey(collection), CollectionPath(collection), "list")

\* loadCollection after listFiles returned, up to Promise.allSettled.
loadCollectionListed(st, t, resp) ==
    LET listed == listFiles(resp)
        files == SelectSeq(listed.value, IsMd)
        first == Len(st.tasks) + 1
        mapped == MapLoad([st EXCEPT !.tasks[t].resp = resp],
                          st.tasks[t].collection, files, t)
    IN  IF listed.threw THEN Reject([st EXCEPT !.tasks[t].resp = resp], t)
        ELSE [mapped EXCEPT !.tasks[t].pc = "await",
                            !.tasks[t].kids = [i \in 1..Len(files) |-> first + i - 1]]

IsLoaded(result) == result.status = "fulfilled" /\ Truthy(result.value)

\* The filter item => item.active === true.
IsActiveOnlyWhenTrue(item) ==
    "active" \in DOMAIN item.fields /\ item.fields["active"] = Bool("true")

IsActive(item) ==
    "active" \notin DOMAIN item.fields \/ item.fields["active"] # Bool("false")

\* The objects of seq in the order of their allocation.
RECURSIVE SortById(_)
SortById(seq) ==
    IF seq = <<>> THEN <<>>
    ELSE LET m == CHOOSE i \in 1..Len(seq) : \A j \in 1..Len(seq) : seq[i].id <= seq[j].id
         IN  <<seq[m]>> \o SortById(SubSeq(seq, 1, m - 1) \o SubSeq(seq, m + 1, Len(seq)))

\* loadCollection that gives up the whole collection when one document is
\* absent, as Promise.all with a throwing loadContent would.
loadCollectionSettledAllOrNothing(st, t) ==
    LET task == st.tasks[t]
        results == [i \in 1..Len(task.kids) |->
                       [status |-> st.tasks[task.kids[i]].pc,
                        value |-> st.tasks[task.kids[i]].result]]
        loaded == SelectSeq(results, IsLoaded)
        values == [i \in 1..Len(loaded) |-> loaded[i].value]
        items == [id |-> st.nextId, kind |-> "array", fields |-> EmptyMap,
                  items |-> IF Len(loaded) < Len(results) THEN <<>>
                            ELSE SelectSeq(values, IsActive)]
    IN  Return([st EXCEPT !.cache = setCached(@, KeyOf(task), items),
                          !.nextId = @ + 1],
               t, items)

\* loadCollection that collects the records in the order in which the loads
\* completed.
loadCollectionSettledByCompletion(st, t) ==
    LET task == st.tasks[t]
        results == [i \in 1..Len(task.kids) |->
                       [status |-> st.tasks[task.kids[i]].pc,
                        value |-> st.tasks[task.kids[i]].result]]
        loaded == SelectSeq(results, IsLoaded)
        values == [i \in 1..Len(loaded) |-> loaded[i].value]
        items == [id |-> st.nextId, kind |-> "array", fields |-> EmptyMap,
                  items |-> SortById(SelectSeq(values, IsActive))]
    IN  Return([st EXCEPT !.cache = setCached(@, KeyOf(task), items),
                          !.nextId = @ + 1],
               t, items)

\* loadCollection after every promise settled.
loadCollectionSettled(st, t) ==
    LET task == st.tasks[t]
        results == [i \in 1..Len(task.kids) |->
                       [status |-> st.tasks[task.kids[i]].pc,
                        value |-> st.tasks[task.kids[i]].result]]
        loaded == SelectSeq(results, IsLoaded)
        values == [i \in 1..Len(loaded) |-> loaded[i].value]
        items == [id |-> st.nextId, kind |-> "array", fields |-> EmptyMap,
                  items |-> SelectSeq(values, IsActive)]
    IN  Return([st EXCEPT !.cache = setCached(@, KeyOf(task), items),
                          !.nextId = @ + 1],
               t, items)

\* ---------------------------------------------------------- reviews slider
\* document.querySelector('.reviews-track'): null, or the element, whose
\* style.transform is not set (<<>>) or translateX(-p%) (<<p>>).
NoTrack == [present |-> FALSE, translateX |-> <<>>]

Track == [present |-> TRUE, translateX |-> <<>>]

totalSlides == Len(reviewDots)

\* goToSlide(index): the slider afterwards.
goToSlide(index) ==
    /\ currentSlide' = index
    /\ reviewsSlider' = IF reviewsSlider.present
                        THEN [reviewsSlider EXCEPT !.translateX = <<index * 100>>]
                        ELSE reviewsSlider
    /\ reviewDots' = [i \in 1..Len(reviewDots) |-> i - 1 = index]

\* The index computed for the direction 'prev'.
prevIndex == IF currentSlide > 0 THEN currentSlide - 1 ELSE totalSlides - 1

\* The index computed with <= in the place of <.
nextIndexOffByOne == IF currentSlide <= totalSlides - 1 THEN currentSlide + 1 ELSE 0

\* The index computed for any other direction, and by the auto-rotation.
nextIndex == IF currentSlide < totalSlides - 1 THEN currentSlide + 1 ELSE 0

\* ---------------------------------------------------------------- actions
State == [tasks |-> tasks, cache |-> cache, fetchCount |-> fetchCount, nextId |-> nextId]

Becomes(st) ==
    /\ tasks' = st.tasks
    /\ cache' = st.cache
    /\ fetchCount' = st.fetchCount
    /\ nextId' = st.nextId

Settled(task) == task.pc \in {"fulfilled", "rejected"}

\* The code of the page awaits each call before it makes the next one.
Idle == \A u \in 1..Len(tasks) : Settled(tasks[u])

Init ==
    /\ cache = EmptyMap
    /\ now = 0
    /\ marked \in {"undefined", "function", "throws"}
    /\ jsyaml \in {"undefined", "object"}
    /\ tasks = <<>>
    /\ fetchCount = EmptyMap
    /\ nextId = 1
    /\ currentSlide = 0
    /\ reviewsSlider = NoTrack
    /\ reviewDots = <<>>

\* Some code of the page calls loadContent(c, s).
CallLoadContent ==
    /\ Len(tasks) < MaxTasks
    /\ Idle
    /\ \E c \in Collections, s \in Slugs : Becomes(loadContent(State, c, s, 0))
    /\ UNCHANGED <<now, marked, jsyaml, slider>>

CallLoadCollection ==
    /\ Len(tasks) < MaxTasks
    /\ Idle
    /\ \E c \in Collections : Becomes(loadCollection(State, c))
    /\ UNCHANGED <<now, marked, jsyaml, slider>>

CallLoadSettings ==
    /\ Len(tasks) < MaxTasks
    /\ Idle
    /\ Becomes(loadSettings(State))
    /\ UNCHANGED <<now, marked, jsyaml, slider>>

\* The fetch of a document completes and loadContent runs to its return.
ContentFetched ==
    /\ \E t \in 1..Len(tasks) :
        /\ tasks[t].op = "loadContent" /\ tasks[t].pc = "fetch"
        /\ \E resp \in Failures \cup {Ok(d) : d \in Docs} :
              Becomes(loadContentFetched(State, t, resp))
    /\ UNCHANGED <<now, marked, jsyaml, slider>>

SettingsFetched ==
    /\ \E t \in 1..Len(tasks) :
        /\ tasks[t].op = "loadSettings" /\ tasks[t].pc = "fetch"
        /\ \E resp \in Failures \cup {Ok(d) : d \in SettingsTexts} :
              Becomes(loadSettingsFetched(State, t, resp))
    /\ UNCHANGED <<now, marked, jsyaml, slider>>

\* The request for the directory index completes; loadCollection calls
\* loadContent for every document listed.
CollectionListed ==
    /\ \E t \in 1..Len(tasks) :
        /\ tasks[t].op = "loadCollection" /\ tasks[t].pc = "list"
        /\ \E resp \in Failures \cup {Ok(l) : l \in Listings} :
              /\ Len(tasks) + Len(SelectSeq(listFiles(resp).value, IsMd)) <= MaxTasks
              /\ Becomes(loadCollectionListed(State, t, resp))
    /\ UNCHANGED <<now, marked, jsyaml, slider>>

\* Promise.all in the place of Promise.allSettled, with loads that fail by
\* rejecting: it resolves as soon as one load has failed.
CollectionSettledOnFirstFailure ==
    /\ \E t \in 1..Len(tasks) :
        /\ tasks[t].op = "loadCollection" /\ tasks[t].pc = "await"
        /\ \/ \A i \in 1..Len(tasks[t].kids) : Settled(tasks[tasks[t].kids[i]])
           \/ \E i \in 1..Len(tasks[t].kids) :
                 /\ Settled(tasks[tasks[t].kids[i]])
                 /\ ~Truthy(tasks[tasks[t].kids[i]].result)
        /\ Becomes(loadCollectionSettled(State, t))
    /\ UNCHANGED <<now, marked, jsyaml, slider>>

\* Promise.allSettled resolves: every loadContent call of the collection settled.
CollectionSettled ==
    /\ \E t \in 1..Len(tasks) :
        /\ tasks[t].op = "loadCollection" /\ tasks[t].pc = "await"
        /\ \A i \in 1..Len(tasks[t].kids) : Settled(tasks[tasks[t].kids[i]])
        /\ Becomes(loadCollectionSettled(State, t))
    /\ UNCHANGED <<now, marked, jsyaml, slider>>

\* clearCache(): this.cache = {}.  The call is recorded with the loader
\* calls, in call order.  No code of the repository calls it, and the
\* specification of the page's calls below leaves it out.
clearCache ==
    /\ Len(tasks) < MaxTasks
    /\ tasks' = Append(tasks, NewTask("clearCache", <<>>, <<>>, 0))
    /\ cache' = EmptyMap
    /\ UNCHANGED <<now, marked, jsyaml, fetchCount, nextId, slider>>

\* Time passes.
Tick ==
    /\ \E later \in Instants : later > now /\ now' = later
    /\ UNCHANGED <<cache, marked, jsyaml, tasks, fetchCount, nextId, slider>>

Next ==
    \/ CallLoadContent
    \/ CallLoadCollection
    \/ CallLoadSettings
    \/ ContentFetched
    \/ SettingsFetched
    \/ CollectionListed
    \/ CollectionSettled
    \/ Tick

\* A page whose code awaits every loader call before it makes the next one
\* (as loadServicePage does); the loadContent calls of one loadCollection
\* call run concurrently and complete in any order.
Spec == Init /\ [][Next]_vars

\* ------------------------------------------------ documents of any shape
\* The fetch of a document completes with a text of any shape.
AnyContentFetched ==
    /\ \E t \in 1..Len(tasks) :
        /\ tasks[t].op = "loadContent" /\ tasks[t].pc = "fetch"
        /\ \E resp \in Failures \cup {Ok(d) : d \in AllDocs} :
              Becomes(loadContentFetched(State, t, resp))
    /\ UNCHANGED <<now, marked, jsyaml, slider>>

NextDocs ==
    \/ CallLoadContent
    \/ AnyContentFetched

\* The page loads one document again and again, and the server answers with
\* a text of any shape.
SpecDocs == Init /\ [][NextDocs]_vars

\* ------------------------------------------------------ overlapping calls
\* The versions of the source document on the server, oldest first.
Versions == <<DocHello, DocActive>>

VersionOf(text) == CHOOSE v \in 1..Len(Versions) : Versions[v] = text

\* The version of the document the server served last (the first one when
\* it served none yet).
ServedVersion ==
    Max({1} \cup {VersionOf(tasks[t].resp.text) :
                     t \in {u \in 1..Len(tasks) : tasks[u].resp.status = "200"}})

\* Some code of the page calls loadContent(c, s), whether or not earlier
\* calls have returned.
OverlapLoadContent ==
    /\ Len(tasks) < MaxTasks
    /\ \E c \in Collections, s \in Slugs : Becomes(loadContent(State, c, s, 0))
    /\ UNCHANGED <<now, marked, jsyaml, slider>>

\* The server answers the request of a call, with a failure or with the
\* document as it is at that moment; the response is on its way.
Serve ==
    /\ \E t \in 1..Len(tasks) :
        /\ tasks[t].op = "loadContent" /\ tasks[t].pc = "fetch"
        /\ tasks[t].resp = NoResponse
        /\ \E resp \in Failures
                    \cup {Ok(Versions[v]) : v \in ServedVersion..Len(Versions)} :
              tasks' = [tasks EXCEPT ![t].resp = resp]
    /\ UNCHANGED <<cache, now, marked, jsyaml, fetchCount, nextId, slider>>

\* A response arrives, in any order, and loadContent runs to its return.
Deliver ==
    /\ \E t \in 1..Len(tasks) :
        /\ tasks[t].op = "loadContent" /\ tasks[t].pc = "fetch"
        /\ tasks[t].resp # NoResponse
        /\ Becomes(loadContentFetched(State, t, tasks[t].resp))
    /\ UNCHANGED <<now, marked, jsyaml, slider>>

NextOverlap ==
    \/ OverlapLoadContent
    \/ Serve
    \/ Deliver
    \/ clearCache

\* Event handlers of a page that call loadContent for one document and
\* clearCache without waiting for earlier calls, while the document changes
\* on the server.
SpecOverlap == Init /\ [][NextOverlap]_vars

\* ------------------------------------------------------ names of any shape
\* Collection and slug strings that are, or that contain, the words and the
\* ":" of which the cache keys are made.
NamePairs ==
    { <<<<"services">>, <<"a">>>>,
      <<<<"collection">>, <<"services">>>>,
      <<<<"settings">>, <<"global">>>>,
      <<<<"a", ":", "b">>, <<"c">>>>,
      <<<<"a">>, <<"b", ":", "c">>>> }

\* A directory with the file "b.mdold.md", whose name has ".md" twice.
NameListings == { <<File("a"), <<"b", ".md", "old", ".md">>>> }

NamesLoadContent ==
    /\ Len(tasks) < MaxTasks
    /\ Idle
    /\ \E pair \in NamePairs : Becomes(loadContent(State, pair[1], pair[2], 0))
    /\ UNCHANGED <<now, marked, jsyaml, slider>>

NamesContentFetched ==
    /\ \E t \in 1..Len(tasks) :
        /\ tasks[t].op = "loadContent" /\ tasks[t].pc = "fetch"
        /\ \E resp \in {HttpError, Ok(DocHello)} :
              Becomes(loadContentFetched(State, t, resp))
    /\ UNCHANGED <<now, marked, jsyaml, slider>>

NamesListed ==
    /\ \E t \in 1..Len(tasks) :
        /\ tasks[t].op = "loadCollection" /\ tasks[t].pc = "list"
        /\ \E resp \in {HttpError} \cup {Ok(l) : l \in NameListings} :
              /\ Len(tasks) + Len(SelectSeq(listFiles(resp).value, IsMd)) <= MaxTasks
              /\ Becomes(loadCollectionListed(State, t, resp))
    /\ UNCHANGED <<now, marked, jsyaml, slider>>

NextNames ==
    \/ NamesLoadContent
    \/ CallLoadCollection
    \/ CallLoadSettings
    \/ NamesContentFetched
    \/ SettingsFetched
    \/ NamesListed
    \/ CollectionSettled

\* The page of Spec, with collections, slugs and files of other names.
SpecNames == Init /\ [][NextNames]_vars

\* ---------------------------------------------------------- reviews slider
\* The values of an arrow's data-direction attribute.
Directions == {"prev", "next", "null"}

\* The page script has run on a page with any number of dots, each with or
\* without the class active, and with or without the track; the loader is
\* as constructed.
SliderInit ==
    /\ cache = EmptyMap
    /\ now = 0
    /\ marked = "undefined"
    /\ jsyaml = "undefined"
    /\ tasks = <<>>
    /\ fetchCount = EmptyMap
    /\ nextId = 1
    /\ currentSlide = 0
    /\ reviewsSlider \in {NoTrack, Track}
    /\ \E n \in 0..MaxSlides : reviewDots \in [1..n -> BOOLEAN]

\* A click on the dot of index.
DotClick ==
    /\ \E index \in 0..(totalSlides - 1) : goToSlide(index)
    /\ UNCHANGED <<cache, now, marked, jsyaml, tasks, fetchCount, nextId>>

\* A click on an arrow with the attribute data-direction = direction.
ArrowClicked(direction) ==
    /\ goToSlide(IF direction = "prev" THEN prevIndex ELSE nextIndex)
    /\ UNCHANGED <<cache, now, marked, jsyaml, tasks, fetchCount, nextId>>

ArrowClick == \E direction \in Directions : ArrowClicked(direction)

\* The callback of setInterval.
AutoRotate ==
    /\ IF totalSlides > 1 THEN goToSlide(nextIndex) ELSE UNCHANGED slider
    /\ UNCHANGED <<cache, now, marked, jsyaml, tasks, fetchCount, nextId>>

NextSlider ==
    \/ DotClick
    \/ ArrowClick
    \/ AutoRotate

\* The visitor clicks dots and arrows and the interval fires, in any order.
SpecSlider == SliderInit /\ [][NextSlider]_vars

\* ------------------------------------------------------ steps and cases
IsContent(task, c, s) ==
    task.op = "loadContent" /\ task.collection = c /\ task.slug = s

\* The calls made in this step.
NewCalls == (Len(tasks) + 1)..Len(tasks')

\* Call t, which was awaiting its response, runs to its end in this step.
Finishes(t) == ~Settled(tasks[t]) /\ Settled(tasks'[t])

\* Call t returned a value without a request: it was served from the cache.
ServedFromCache(task) == task.pc = "fulfilled" /\ task.resp = NoResponse

\* Call t fetched and then returned a record, sequence or mapping.
Loaded(task) ==
    task.pc = "fulfilled" /\ task.resp # NoResponse /\ Truthy(task.result)

\* The entry of key is in the cache and not older than cacheTime.
Fresh(key) == key \in DOMAIN cache /\ now - cache[key].timestamp <= cacheTime

Stale(key) == key \in DOMAIN cache /\ now - cache[key].timestamp > cacheTime

\* ------------------------------------------------------------------- C1
\* C1: a loadContent call that fetched its document and returns a record
\* caches exactly that record with the current time, and a loadContent call
\* for the same collection and slug made while that record is cached and not
\* older than cacheTime returns the same object and issues no fetch.
C1_CacheIdempotence ==
    [][/\ \A t \in 1..Len(tasks) :
            (tasks[t].op = "loadContent" /\ Finishes(t) /\ Truthy(tasks'[t].result))
            => /\ KeyOf(tasks[t]) \in DOMAIN cache'
               /\ cache'[KeyOf(tasks[t])] = [data |-> tasks'[t].result, timestamp |-> now]
               /\ fetchCount' = fetchCount
       /\ \A t1 \in 1..Len(tasks), n \in NewCalls :
            (/\ tasks[t1].op = "loadContent" /\ Loaded(tasks[t1])
             /\ IsContent(tasks'[n], tasks[t1].collection, tasks[t1].slug)
             /\ Fresh(KeyOf(tasks[t1]))
             /\ cache[KeyOf(tasks[t1])].data = tasks[t1].result)
            => /\ tasks'[n].pc = "fulfilled"
               /\ tasks'[n].result = tasks[t1].result
               /\ Count(fetchCount', PathOf(tasks[t1]))
                      = Count(fetchCount, PathOf(tasks[t1]))]_vars

\* The second call, made when the entry is exactly cacheTime old, returned
\* the record of the first and the document was fetched once.
C1_Witness ==
    /\ Len(tasks) = 2
    /\ tasks[1].op = "loadContent" /\ Loaded(tasks[1])
    /\ IsContent(tasks[2], tasks[1].collection, tasks[1].slug)
    /\ ServedFromCache(tasks[2])
    /\ tasks[2].result.id = tasks[1].result.id
    /\ Count(fetchCount, PathOf(tasks[1])) = 1
    /\ KeyOf(tasks[1]) \in DOMAIN cache
    /\ now - cache[KeyOf(tasks[1])].timestamp = cacheTime

\* ------------------------------------------------------------------- C2
\* C2: a loadContent call for a key whose entry is older than cacheTime does
\* not return the entry: it removes the entry from the cache in the same
\* step in which it issues the fetch, and the fetch count of the document
\* grows by one.
C2_StaleEntryEvicted ==
    [][\A n \in NewCalls :
          (tasks'[n].op = "loadContent" /\ Stale(KeyOf(tasks'[n])))
          => /\ tasks'[n].pc = "fetch"
             /\ tasks'[n].result = null
             /\ KeyOf(tasks'[n]) \notin DOMAIN cache'
             /\ Count(fetchCount', PathOf(tasks'[n]))
                    = Count(fetchCount, PathOf(tasks'[n])) + 1]_vars

\* The document was loaded, its entry expired, and the second call has
\* evicted the entry and fetched again.
C2_Witness ==
    /\ Len(tasks) = 2
    /\ tasks[1].op = "loadContent" /\ Loaded(tasks[1])
    /\ IsContent(tasks[2], tasks[1].collection, tasks[1].slug)
    /\ tasks[2].pc = "fetch"
    /\ KeyOf(tasks[2]) \notin DOMAIN cache
    /\ Count(fetchCount, PathOf(tasks[2])) = 2
    /\ now = cacheTime + 1

\* ------------------------------------------------------------------- C3
\* The latest call of loadContent(c, s) made before this step, 0 if none.
LatestContent(c, s) ==
    LET made == {t \in 1..Len(tasks) : IsContent(tasks[t], c, s)}
    IN  IF made = {} THEN 0 ELSE CHOOSE t \in made : \A u \in made : u <= t

ReturnedAbsent(task) == task.pc = "fulfilled" /\ ~Truthy(task.result)

\* The fetch failed, or the text does not match the frontmatter pattern.
FetchFailed(resp) == resp.status \in {"rejected", "404"}

FormatFailed(resp) == resp.status = "200" /\ ~RegexMatch(resp.text).matched

\* C3: the step in which a loadContent call returns absent leaves the cache
\* as it was, with no entry for the call's key, and when the latest call of
\* loadContent(c, s) returned absent a new call of loadContent(c, s) issues
\* a fetch.
C3_AbsentNotCached ==
    [][/\ \A t \in 1..Len(tasks) :
            (tasks[t].op = "loadContent" /\ Finishes(t) /\ ReturnedAbsent(tasks'[t]))
            => /\ cache' = cache
               /\ KeyOf(tasks[t]) \notin DOMAIN cache'
       /\ \A n \in NewCalls :
            LET prev == LatestContent(tasks'[n].collection, tasks'[n].slug)
            IN  (/\ tasks'[n].op = "loadContent"
                 /\ prev # 0
                 /\ ReturnedAbsent(tasks[prev]))
                => /\ tasks'[n].pc = "fetch"
                   /\ Count(fetchCount', PathOf(tasks'[n]))
                          = Count(fetchCount, PathOf(tasks'[n])) + 1]_vars

\* One call returned absent after a failed fetch, the next after a text
\* without the closing delimiter, and the third call is fetching again.
C3_Witness ==
    /\ Len(tasks) = 3
    /\ \A t \in 1..3 : IsContent(tasks[t], tasks[1].collection, tasks[1].slug)
    /\ ReturnedAbsent(tasks[1]) /\ FetchFailed(tasks[1].resp)
    /\ ReturnedAbsent(tasks[2]) /\ FormatFailed(tasks[2].resp)
    /\ tasks[3].pc = "fetch"
    /\ Count(fetchCount, PathOf(tasks[1])) = 3
    /\ cache = EmptyMap

\* ------------------------------------------------------------------- C4
\* The delimiters of the text match and its block does not deserialize.
DeserializationFailed(resp) ==
    /\ resp.status = "200"
    /\ RegexMatch(resp.text).matched
    /\ yamlLoad(RegexMatch(resp.text).block).threw

DerivedKeys == {"body", "rawBody", "collection", "slug"}

\* C4: a loadContent call whose document matches the delimiters and fails
\* to deserialize returns a record with the four derived fields only and
\* caches it, and a loadContent call for the same collection and slug made
\* while that record is cached and not older than cacheTime returns it
\* without a fetch.
C4_BadFrontmatterCached ==
    [][/\ \A t \in 1..Len(tasks) :
            (/\ tasks[t].op = "loadContent" /\ Finishes(t)
             /\ DeserializationFailed(tasks'[t].resp))
            => /\ tasks'[t].pc = "fulfilled"
               /\ Truthy(tasks'[t].result)
               /\ DOMAIN tasks'[t].result.fields = DerivedKeys
               /\ KeyOf(tasks[t]) \in DOMAIN cache'
               /\ cache'[KeyOf(tasks[t])].data = tasks'[t].result
       /\ \A t1 \in 1..Len(tasks), n \in NewCalls :
            (/\ tasks[t1].op = "loadContent"
             /\ tasks[t1].pc = "fulfilled"
             /\ DeserializationFailed(tasks[t1].resp)
             /\ IsContent(tasks'[n], tasks[t1].collection, tasks[t1].slug)
             /\ Fresh(KeyOf(tasks[t1]))
             /\ cache[KeyOf(tasks[t1])].data.id = tasks[t1].result.id)
            => /\ ServedFromCache(tasks'[n])
               /\ tasks'[n].result = tasks[t1].result
               /\ DOMAIN tasks'[n].result.fields = DerivedKeys
               /\ Count(fetchCount', PathOf(tasks[t1]))
                      = Count(fetchCount, PathOf(tasks[t1]))]_vars

\* With js-yaml loaded, a document with a malformed block was loaded and a
\* second call got the record with the empty frontmatter from the cache.
C4_Witness ==
    /\ jsyaml = "object"
    /\ Len(tasks) = 2
    /\ tasks[1].op = "loadContent"
    /\ DeserializationFailed(tasks[1].resp)
    /\ Loaded(tasks[1])
    /\ IsContent(tasks[2], tasks[1].collection, tasks[1].slug)
    /\ ServedFromCache(tasks[2])
    /\ tasks[2].result.id = tasks[1].result.id
    /\ DOMAIN tasks[2].result.fields = DerivedKeys
    /\ Count(fetchCount, PathOf(tasks[1])) = 1

\* ------------------------------------------------------------------- C5
\* C5: a loadSettings call whose fetch fails returns absent and leaves the
\* cache as it was; one whose text is fetched and does not deserialize
\* returns an empty mapping, which is not absent, and caches it under
\* "settings:global".
C5_SettingsFallback ==
    [][\A t \in 1..Len(tasks) :
          (tasks[t].op = "loadSettings" /\ Finishes(t))
          => /\ FetchFailed(tasks'[t].resp)
                => /\ ReturnedAbsent(tasks'[t])
                   /\ cache' = cache
                   /\ SettingsKey \notin DOMAIN cache'
             /\ (tasks'[t].resp.status = "200" /\ yamlLoad(tasks'[t].resp.text).threw)
                => /\ tasks'[t].pc = "fulfilled"
                   /\ Truthy(tasks'[t].result)
                   /\ tasks'[t].result.fields = EmptyMap
                   /\ SettingsKey \in DOMAIN cache'
                   /\ cache'[SettingsKey] = [data |-> tasks'[t].result, timestamp |-> now]]_vars

\* With js-yaml loaded: one call failed to fetch and returned absent, the
\* next fetched malformed settings and returned the cached empty mapping.
C5_Witness ==
    /\ jsyaml = "object"
    /\ Len(tasks) = 2
    /\ tasks[1].op = "loadSettings" /\ FetchFailed(tasks[1].resp)
    /\ ReturnedAbsent(tasks[1])
    /\ tasks[2].op = "loadSettings" /\ tasks[2].resp = Ok(SettingsBad)
    /\ Loaded(tasks[2]) /\ tasks[2].result.fields = EmptyMap
    /\ SettingsKey \in DOMAIN cache
    /\ cache[SettingsKey].data = tasks[2].result

\* ------------------------------------------------------------------- C6
Range(seq) == {seq[i] : i \in 1..Len(seq)}

\* A loadCollection call that listed the directory and returned.
Collected(task) ==
    task.op = "loadCollection" /\ task.pc = "fulfilled" /\ task.resp # NoResponse

KidResults(task) == {tasks[task.kids[i]].result : i \in 1..Len(task.kids)}

ExplicitlyInactive(record) ==
    "active" \in DOMAIN record.fields /\ record.fields["active"] = Bool("false")

\* The frontmatter of the text says active: false.
SaysInactive(resp) ==
    /\ resp.status = "200"
    /\ RegexMatch(resp.text).matched
    /\ "active: false" \in YamlLines(RegexMatch(resp.text).block)

\* C6: the sequence a loadCollection call returns holds, once each, exactly
\* the records its loadContent calls returned whose active field is not
\* false; a loadContent call whose document says active: false returns its
\* record, with active false.
C6_ActiveFiltering ==
    /\ \A t \in 1..Len(tasks) :
          Collected(tasks[t])
          => /\ Range(tasks[t].result.items)
                  = {r \in KidResults(tasks[t]) : Truthy(r) /\ ~ExplicitlyInactive(r)}
             /\ \A i, j \in 1..Len(tasks[t].result.items) :
                  tasks[t].result.items[i] = tasks[t].result.items[j] => i = j
    /\ \A t \in 1..Len(tasks) :
          (/\ tasks[t].op = "loadContent" /\ Settled(tasks[t])
           /\ SaysInactive(tasks[t].resp) /\ jsyaml = "object")
          => /\ Loaded(tasks[t])
             /\ ExplicitlyInactive(tasks[t].result)

\* A collection of a document with active: false and a document without an
\* active field was loaded: the sequence holds the second one only.
C6_Witness ==
    \E t \in 1..Len(tasks) :
        /\ Collected(tasks[t])
        /\ Len(tasks[t].kids) = 2
        /\ \E r \in KidResults(tasks[t]) : Truthy(r) /\ ExplicitlyInactive(r)
        /\ Len(tasks[t].result.items) = 1
        /\ "active" \notin DOMAIN tasks[t].result.items[1].fields

\* ------------------------------------------------------------------- C7
\* C7: when a loadContent call of a loadCollection call returned absent, the
\* loadCollection call is not rejected, and once it has settled its sequence
\* holds every record that its other loadContent calls returned and that is
\* not filtered out for active: false.
C7_PartialFailure ==
    \A t \in 1..Len(tasks) :
        (/\ tasks[t].op = "loadCollection"
         /\ \E i \in 1..Len(tasks[t].kids) : ReturnedAbsent(tasks[tasks[t].kids[i]]))
        => /\ tasks[t].pc # "rejected"
           /\ tasks[t].pc = "fulfilled"
              => \A i \in 1..Len(tasks[t].kids) :
                    LET r == tasks[tasks[t].kids[i]].result
                    IN  (Truthy(r) /\ ~ExplicitlyInactive(r))
                        => \E j \in 1..Len(tasks[t].result.items) :
                              tasks[t].result.items[j] = r

\* C7 as stated: when a loadContent call of a loadCollection call returned
\* absent, the sequence holds every record its other loadContent calls
\* returned, and is not empty when there is such a record.
C7_ReturnsAllLoaded ==
    \A t \in 1..Len(tasks) :
        (/\ Collected(tasks[t])
         /\ \E i \in 1..Len(tasks[t].kids) : ReturnedAbsent(tasks[tasks[t].kids[i]]))
        => \A i \in 1..Len(tasks[t].kids) :
              LET r == tasks[tasks[t].kids[i]].result
              IN  Truthy(r) => /\ tasks[t].result.items # <<>>
                               /\ \E j \in 1..Len(tasks[t].result.items) :
                                     tasks[t].result.items[j] = r

\* One document failed to fetch and the collection returned the other one.
C7_Witness ==
    \E t \in 1..Len(tasks) :
        /\ Collected(tasks[t])
        /\ Len(tasks[t].kids) = 2
        /\ \E i \in 1..2 :
              /\ ReturnedAbsent(tasks[tasks[t].kids[i]])
              /\ FetchFailed(tasks[tasks[t].kids[i]].resp)
        /\ Len(tasks[t].result.items) = 1

\* ------------------------------------------------------------------- C8
\* A request of the loadCollection call failed: the listing or a document.
HadFetchFailure(task) ==
    \/ FetchFailed(task.resp)
    \/ \E i \in 1..Len(task.kids) : FetchFailed(tasks[task.kids[i]].resp)

\* C8: no loadCollection call is served from the cache with the sequence of
\* a loadCollection call one of whose requests (the directory listing or
\* the fetch of a document) failed.
C8_FailureNeverCached ==
    \A t1, t2 \in 1..Len(tasks) :
        (/\ Collected(tasks[t1]) /\ HadFetchFailure(tasks[t1])
         /\ tasks[t2].op = "loadCollection" /\ ServedFromCache(tasks[t2]))
        => tasks[t2].result.id # tasks[t1].result.id

\* ------------------------------------------------------------------- C9
\* The place of the record's file in the directory listing of the call.
ListingIndex(task, record) ==
    LET files == listFiles(task.resp).value
        file == record.fields["slug"].v \o <<".md">>
    IN  Min({i \in 1..Len(files) : files[i] = file})

\* C9: the records of the sequence a loadCollection call returns stand in
\* the order of their files in the directory listing.
C9_ListingOrder ==
    \A t \in 1..Len(tasks) :
        Collected(tasks[t])
        => \A i, j \in 1..Len(tasks[t].result.items) :
              i < j => ListingIndex(tasks[t], tasks[t].result.items[i])
                           < ListingIndex(tasks[t], tasks[t].result.items[j])

\* The second document listed completed first (its record is the older
\* object) and stands second in the sequence.
C9_Witness ==
    \E t \in 1..Len(tasks) :
        /\ Collected(tasks[t])
        /\ Len(tasks[t].result.items) = 2
        /\ tasks[t].result.items[1].id > tasks[t].result.items[2].id

\* ------------------------------------------------------------------ C10
\* C10: no call of loadContent, loadCollection or loadSettings is rejected,
\* and a call that settled returned absent, a record, a sequence or a mapping.
C10_NeverRejects ==
    \A t \in 1..Len(tasks) :
        /\ tasks[t].pc # "rejected"
        /\ tasks[t].pc = "fulfilled"
           => /\ tasks[t].result.kind \in {"null", "object", "array"}
              /\ tasks[t].op = "loadCollection" => tasks[t].result.kind = "array"
              /\ tasks[t].op # "loadCollection" => tasks[t].result.kind # "array"

\* With a renderer that throws: a document with a malformed block was
\* loaded, a directory listing failed on the network, and the settings
\* came back with a non-success status; all three calls returned.
C10_Witness ==
    /\ marked = "throws"
    /\ \E t \in 1..Len(tasks) :
          tasks[t].op = "loadContent" /\ Loaded(tasks[t])
          /\ DeserializationFailed(tasks[t].resp)
    /\ \E t \in 1..Len(tasks) :
          Collected(tasks[t]) /\ tasks[t].resp = NetworkError
    /\ \E t \in 1..Len(tasks) :
          tasks[t].op = "loadSettings" /\ tasks[t].pc = "fulfilled"
          /\ tasks[t].resp = HttpError

\* ------------------------------------------------------------------ C11
\* The records that loadContent calls returned and the records in the cache.
Records ==
    {tasks[t].result : t \in {u \in 1..Len(tasks) :
        tasks[u].op = "loadContent" /\ tasks[u].pc = "fulfilled"
        /\ Truthy(tasks[u].result)}}
    \cup {cache[k].data : k \in DOMAIN cache}

\* C11: in every record that a loadContent call returned or that is in the
\* cache, body is the rendering of the text in rawBody when the renderer
\* works and is the text in rawBody itself when the renderer is not loaded
\* or throws; and rawBody of the record a call built is the body that
\* parseFrontmatter split off the text the call fetched.
C11_BodyConsistent ==
    /\ \A r \in Records :
          /\ {"body", "rawBody"} \subseteq DOMAIN r.fields
          /\ marked = "function"
                => r.fields["body"] = Str(marked_render(r.fields["rawBody"].v))
          /\ marked \in {"undefined", "throws"}
                => r.fields["body"] = r.fields["rawBody"]
    /\ \A t \in 1..Len(tasks) :
          (tasks[t].op = "loadContent" /\ Loaded(tasks[t]))
          => tasks[t].result.fields["rawBody"]
                 = Str(parseFrontmatter(tasks[t].resp.text).body)

\* With a renderer that throws, a document whose frontmatter has a body key
\* of its own was loaded and is cached: body and rawBody are the body text.
C11_Witness ==
    /\ marked = "throws"
    /\ jsyaml = "object"
    /\ \E t \in 1..Len(tasks) :
          /\ tasks[t].op = "loadContent" /\ Loaded(tasks[t])
          /\ tasks[t].resp = Ok(DocShadow)
          /\ tasks[t].result.fields["rawBody"] = Str(<<"Body text">>)
          /\ tasks[t].result.fields["body"] = Str(<<"Body text">>)
          /\ KeyOf(tasks[t]) \in DOMAIN cache
          /\ cache[KeyOf(tasks[t])].data = tasks[t].result

\* ------------------------------------------------------------------ C12
\* C12: the record a loadContent(c, s) call built has body, rawBody,
\* collection and slug set to the rendered body, the parsed body, c and s,
\* whatever the frontmatter says, and has every other key of the frontmatter
\* with the frontmatter's value, and no further key.
C12_DerivedFieldsWin ==
    \A t \in 1..Len(tasks) :
        (tasks[t].op = "loadContent" /\ Loaded(tasks[t]))
        => LET parsed == parseFrontmatter(tasks[t].resp.text)
               fields == tasks[t].result.fields
           IN  /\ DOMAIN fields = DOMAIN parsed.frontmatter \cup DerivedKeys
               /\ fields["body"] = Str(parseMarkdown(parsed.body).value)
               /\ fields["rawBody"] = Str(parsed.body)
               /\ fields["collection"] = Str(tasks[t].collection)
               /\ fields["slug"] = Str(tasks[t].slug)
               /\ \A k \in DOMAIN parsed.frontmatter \ DerivedKeys :
                     fields[k] = parsed.frontmatter[k]

\* A document whose frontmatter says slug: other and body: shadow was
\* loaded: the record has the slug of the call, not "other", a body that is
\* not "shadow", and the title of the frontmatter.
C12_Witness ==
    /\ jsyaml = "object"
    /\ \E t \in 1..Len(tasks) :
          /\ tasks[t].op = "loadContent" /\ Loaded(tasks[t])
          /\ tasks[t].resp = Ok(DocShadow)
          /\ parseFrontmatter(DocShadow).frontmatter["slug"] = Str(<<"other">>)
          /\ tasks[t].result.fields["slug"] = Str(tasks[t].slug)
          /\ tasks[t].result.fields["slug"] # Str(<<"other">>)
          /\ tasks[t].result.fields["body"] # Str(<<"shadow">>)
          /\ tasks[t].result.fields["title"] = Str(<<"Hello">>)

\* ------------------------------------------------------------------ C13
\* The places of a "---" line that follows a newline: a line that ends with
\* a newline, or the last line of the text.
ClosingLines(text) ==
    {j \in 2..(Len(text) - 1) :
        /\ text[j] = NL /\ text[j + 1] = "---"
        /\ (j + 1 = Len(text) \/ text[j + 2] = NL)}

\* Those that end with a newline.
TerminatedClosingLines(text) == {j \in ClosingLines(text) : j + 1 < Len(text)}

HasOpeningLine(text) == Len(text) >= 2 /\ text[1] = "---" /\ text[2] = NL

\* The text after the newline that ends the "---" line at j.
TextAfter(text, j) == SubSeq(text, j + 3, Len(text))

InvalidFormat(text) ==
    [threw |-> FALSE, frontmatter |-> EmptyMap, body |-> text,
     error |-> "Invalid frontmatter format"]

\* The texts that loadContent calls fetched and passed to parseFrontmatter.
ParsedTexts ==
    {tasks[t].resp.text : t \in {u \in 1..Len(tasks) :
        tasks[u].op = "loadContent" /\ tasks[u].resp.status = "200"}}

\* C13: for a text without a "---" line that ends with a newline,
\* parseFrontmatter returns the empty frontmatter, the whole text as body and
\* the error "Invalid frontmatter format"; for a text with an opening "---"
\* line, a block and a "---" line that ends with a newline it returns no
\* error and as body the text after the first such line, whether the block
\* deserializes or not.
C13_FrontmatterSplit ==
    \A text \in ParsedTexts :
        LET parsed == parseFrontmatter(text)
            closing == {j \in TerminatedClosingLines(text) : j >= 3}
        IN  /\ TerminatedClosingLines(text) = {} => parsed = InvalidFormat(text)
            /\ (HasOpeningLine(text) /\ closing # {})
               => /\ ~parsed.threw
                  /\ parsed.error = "null"
                  /\ parsed.body = TextAfter(text, Min(closing))
                  /\ yamlLoad(SubSeq(text, 3, Min(closing) - 1)).threw
                        => parsed.frontmatter = EmptyMap

\* C13 as stated: the closing "---" line may also be the last line of the
\* text, without a newline after it.
C13_EveryClosingLine ==
    \A text \in ParsedTexts :
        LET parsed == parseFrontmatter(text)
            closing == {j \in ClosingLines(text) : j >= 3}
        IN  /\ ClosingLines(text) = {} => parsed = InvalidFormat(text)
            /\ (HasOpeningLine(text) /\ closing # {})
               => /\ parsed.error = "null"
                  /\ parsed.body = TextAfter(text, Min(closing))

\* With js-yaml loaded, three texts were parsed: one without a closing line
\* (absent), one whose block does not deserialize (a record with the body
\* after the closing line), and one with a "---" line in its body (the body
\* starts after the first closing line).
C13_Witness ==
    /\ jsyaml = "object"
    /\ Len(tasks) = 3
    /\ tasks[1].resp = Ok(DocNoClose) /\ ReturnedAbsent(tasks[1])
    /\ parseFrontmatter(DocNoClose) = InvalidFormat(DocNoClose)
    /\ tasks[2].resp = Ok(DocNoNewline) /\ ReturnedAbsent(tasks[2])
    /\ tasks[3].resp = Ok(DocTwoClose) /\ Loaded(tasks[3])
    /\ tasks[3].result.fields["rawBody"]
          = Str(<<"Body text", NL, "---", NL, "More">>)

\* ------------------------------------------------------------------ C14
\* The loadContent calls that fetched and returned a record cached under key.
Writers(ts, key) ==
    {t \in 1..Len(ts) : ts[t].op = "loadContent" /\ KeyOf(ts[t]) = key
                         /\ ts[t].pc = "fulfilled" /\ ts[t].resp # NoResponse
                         /\ Truthy(ts[t].result)}

\* C14: a loadContent call made while an earlier call for the same key is
\* awaiting its fetch and the key has no entry misses the cache and issues
\* a fetch of its own; every call that fetched and returns a record writes
\* that record into the cache; and the entry of a key is the record of the
\* call that completed last (the record allocated last) among them.
C14_OverlapLastWriteWins ==
    [][/\ \A n \in NewCalls, u \in 1..Len(tasks) :
            (/\ tasks[u].op = "loadContent" /\ tasks[u].pc = "fetch"
             /\ IsContent(tasks'[n], tasks[u].collection, tasks[u].slug)
             /\ KeyOf(tasks[u]) \notin DOMAIN cache)
            => /\ tasks'[n].pc = "fetch"
               /\ Count(fetchCount', PathOf(tasks[u]))
                      = Count(fetchCount, PathOf(tasks[u])) + 1
               /\ cache' = cache
       /\ \A t \in 1..Len(tasks) :
            (tasks[t].op = "loadContent" /\ Finishes(t) /\ Truthy(tasks'[t].result))
            => /\ KeyOf(tasks[t]) \in DOMAIN cache'
               /\ cache'[KeyOf(tasks[t])]
                      = [data |-> tasks'[t].result, timestamp |-> now]
       /\ \A k \in DOMAIN cache' :
            /\ Writers(tasks', k) # {}
            /\ cache'[k].data.id
                   = Max({tasks'[t].result.id : t \in Writers(tasks', k)})]_vars

\* Two calls for the same document overlapped: both fetched (fetch count 2),
\* the second call completed first, and the entry in the cache is the record
\* of the first call, which completed last.
C14_Witness ==
    /\ Len(tasks) = 2
    /\ tasks[1].op = "loadContent" /\ Loaded(tasks[1])
    /\ IsContent(tasks[2], tasks[1].collection, tasks[1].slug)
    /\ Loaded(tasks[2])
    /\ Count(fetchCount, PathOf(tasks[1])) = 2
    /\ tasks[1].result.id > tasks[2].result.id
    /\ KeyOf(tasks[1]) \in DOMAIN cache
    /\ cache[KeyOf(tasks[1])].data = tasks[1].result

\* ------------------------------------------------------------------ C19
\* The latest call of clearCache, 0 if none.
LastClear == Max({0} \cup {t \in 1..Len(tasks) : tasks[t].op = "clearCache"})

\* C19: after a call of clearCache, as long as no loader call made after it
\* has completed, the cache holds no entry.
C19_ClearedStaysEmpty ==
    (/\ LastClear > 0
     /\ \A t \in (LastClear + 1)..Len(tasks) : ~Settled(tasks[t]))
    => cache = EmptyMap

\* ------------------------------------------------------------------ C20
\* The version of the document from which the record was built: the version
\* in the response of the call that built it.
BuiltFrom(ts, record) ==
    VersionOf(ts[CHOOSE t \in 1..Len(ts) :
                    ts[t].resp.status = "200" /\ ts[t].result.id = record.id].resp.text)

\* C20: a step that replaces the entry of a key does not replace a record
\* by a record built from an older version of the document.
C20_NeverOlderContent ==
    [][\A k \in DOMAIN cache \cap DOMAIN cache' :
          BuiltFrom(tasks', cache'[k].data) >= BuiltFrom(tasks', cache[k].data)]_vars

\* ------------------------------------------------------------------ C15
\* The loadContent calls of a loadCollection call.
Kids(task) == {task.kids[i] : i \in 1..Len(task.kids)}

\* C15: while a loadCollection call awaits the listing or its loadContent
\* calls, the cache has no entry under its key; once it has listed the
\* directory it has made one loadContent call for every ".md" entry; and
\* when it has returned, every one of these calls has settled, each on its
\* own response or on the cache, and the entry under its key, if there is
\* one, is the sequence it returned or a later one.
C15_WaitsForEveryLoad ==
    \A t \in 1..Len(tasks) :
        tasks[t].op = "loadCollection"
        => /\ tasks[t].pc \in {"list", "await"}
              => KeyOf(tasks[t]) \notin DOMAIN cache
           /\ (tasks[t].pc = "await" \/ Collected(tasks[t]))
              => /\ Len(tasks[t].kids)
                      = Len(SelectSeq(listFiles(tasks[t].resp).value, IsMd))
                 /\ \A k \in Kids(tasks[t]) :
                       tasks[k].op = "loadContent" /\ tasks[k].parent = t
           /\ Collected(tasks[t])
              => /\ \A k \in Kids(tasks[t]) :
                       /\ Settled(tasks[k])
                       /\ tasks[k].resp # NoResponse \/ ServedFromCache(tasks[k])
                 /\ KeyOf(tasks[t]) \in DOMAIN cache
                       => cache[KeyOf(tasks[t])].data.id >= tasks[t].result.id

\* A collection of two documents has returned and is cached: the fetch of
\* the first document failed, and the second document was loaded and is in
\* the sequence.
C15_Witness ==
    \E t \in 1..Len(tasks) :
        /\ Collected(tasks[t])
        /\ Len(tasks[t].kids) = 2
        /\ FetchFailed(tasks[tasks[t].kids[1]].resp)
        /\ ReturnedAbsent(tasks[tasks[t].kids[1]])
        /\ Loaded(tasks[tasks[t].kids[2]])
        /\ tasks[t].result.items = <<tasks[tasks[t].kids[2]].result>>
        /\ KeyOf(tasks[t]) \in DOMAIN cache
        /\ cache[KeyOf(tasks[t])].data = tasks[t].result

\* ------------------------------------------------------------------ C16
\* C16: a loader call made when the entry of its key is exactly cacheTime
\* old returns the data of the entry, and the entry stays as it is; made
\* when the entry is one millisecond older, it does not return, and the
\* entry is removed in that step.
C16_ExpiryBoundary ==
    [][\A n \in NewCalls :
          LET key == KeyOf(tasks'[n])
          IN  (tasks'[n].op # "clearCache" /\ key \in DOMAIN cache)
              => /\ now - cache[key].timestamp = cacheTime
                    => /\ ServedFromCache(tasks'[n])
                       /\ tasks'[n].result = cache[key].data
                       /\ key \in DOMAIN cache'
                       /\ cache'[key] = cache[key]
                 /\ now - cache[key].timestamp = cacheTime + 1
                    => /\ ~Settled(tasks'[n])
                       /\ tasks'[n].result = null
                       /\ key \notin DOMAIN cache']_vars

\* The settings were loaded and cached at 0; a second loadSettings call got
\* them from the cache, and the entry, now exactly cacheTime old, is still
\* in the cache.
C16_Witness ==
    /\ Len(tasks) = 2
    /\ tasks[1].op = "loadSettings" /\ Loaded(tasks[1])
    /\ tasks[2].op = "loadSettings" /\ ServedFromCache(tasks[2])
    /\ tasks[2].result = tasks[1].result
    /\ SettingsKey \in DOMAIN cache
    /\ cache[SettingsKey] = [data |-> tasks[1].result, timestamp |-> 0]
    /\ now = cacheTime

\* ------------------------------------------------------------------ C17
\* The name without its last piece, the extension.
StripExtension(file) == SubSeq(file, 1, Len(file) - 1)

\* C17: the loadContent calls of a loadCollection call that has listed its
\* directory are, in the order of the listing, the calls for the names that
\* end in ".md", each with the name without that ending as its slug.
C17_SlugIsNameWithoutExtension ==
    \A t \in 1..Len(tasks) :
        (/\ tasks[t].op = "loadCollection"
         /\ tasks[t].pc = "await" \/ Collected(tasks[t]))
        => LET names == listFiles(tasks[t].resp).value
               md == SelectSeq(names, LAMBDA f : Len(f) > 0 /\ f[Len(f)] = ".md")
           IN  /\ Len(tasks[t].kids) = Len(md)
               /\ \A i \in 1..Len(md) :
                     IsContent(tasks[tasks[t].kids[i]], tasks[t].collection,
                               StripExtension(md[i]))

\* ------------------------------------------------------------------ C18
\* C18: a loadContent(c, s) call that is served from the cache returns the
\* record that an earlier loadContent(c, s) call built.
C18_NoAliasing ==
    \A t \in 1..Len(tasks) :
        (tasks[t].op = "loadContent" /\ ServedFromCache(tasks[t]))
        => \E u \in 1..(t - 1) :
              /\ IsContent(tasks[u], tasks[t].collection, tasks[t].slug)
              /\ Loaded(tasks[u])
              /\ tasks[u].result = tasks[t].result

\* ------------------------------------------------------------------ C21
\* C21: on a page with at least one dot, currentSlide is an index in
\* 0..totalSlides-1 in every state, a click on an arrow of direction prev
\* goes to the slide before, from slide 0 to the slide totalSlides-1, and a
\* click on any other arrow goes to the slide after, from the last slide to
\* slide 0; on every page the interval's callback goes to the slide after,
\* from the last slide to slide 0, when totalSlides > 1 and leaves the
\* slider as it is otherwise.
C21_SlideInRange ==
    [][/\ totalSlides' = totalSlides
       /\ totalSlides >= 1
          => /\ currentSlide \in 0..(totalSlides - 1)
             /\ currentSlide' \in 0..(totalSlides - 1)
             /\ ArrowClicked("prev")
                => currentSlide' = IF currentSlide = 0 THEN totalSlides - 1
                                   ELSE currentSlide - 1
             /\ (ArrowClicked("next") \/ ArrowClicked("null"))
                => currentSlide' = IF currentSlide = totalSlides - 1 THEN 0
                                   ELSE currentSlide + 1
       /\ AutoRotate
          => IF totalSlides > 1
             THEN currentSlide' = IF currentSlide = totalSlides - 1 THEN 0
                                  ELSE currentSlide + 1
             ELSE UNCHANGED slider]_vars

\* C21 as stated: currentSlide is an index in 0..totalSlides-1 on every page.
C21_AlwaysAnIndex == currentSlide \in 0..(totalSlides - 1)

\* On a page with three dots the slider stands at the last slide: the track
\* is moved by 200% and the third dot alone is active.
C21_Witness ==
    /\ totalSlides = 3
    /\ currentSlide = totalSlides - 1
    /\ reviewsSlider = [present |-> TRUE, translateX |-> <<200>>]
    /\ reviewDots = <<FALSE, FALSE, TRUE>>

====
